---------------------------- MODULE Spec2Model ----------------------------
(***************************************************************************)
(* Model of the URL processor of the library-management backend            *)
(* (backend/internal/usecase/url_usecase.go) together with the parts of    *)
(* Go's net/url and strings packages it calls (url.Parse, URL.String,      *)
(* strings.TrimRight, strings.ToLower).                                    *)
(*                                                                         *)
(* A Go string is a sequence of bytes; a byte is its ASCII code.  Indices  *)
(* are 1-based, and "not found" is 0 where Go returns -1.  The inputs are  *)
(* ASCII, so strings.ToLower is the byte-wise ASCII lower-casing.          *)
(* net/url is modelled as of Go 1.19 and later (URL.OmitHost).             *)
(* Where Go keeps an intermediate value in a local variable, the model     *)
(* passes it as the argument of the operator that continues the function.  *)
(***************************************************************************)
EXTENDS Integers, Sequences, FiniteSets, TLC

(***************************************************************************)
(* Bytes and string literals                                               *)
(***************************************************************************)
\* The printable ASCII characters, codes 32..126, in order (the double quote,
\* the backslash and the backtick are spelled out).
Ascii ==
  << " ", "!", "dquote", "#", "$", "%", "&", "'", "(", ")", "*", "+", ",", "-", ".", "/",
     "0", "1", "2", "3", "4", "5", "6", "7", "8", "9", ":", ";", "<", "=", ">", "?",
     "@", "A", "B", "C", "D", "E", "F", "G", "H", "I", "J", "K", "L", "M", "N", "O",
     "P", "Q", "R", "S", "T", "U", "V", "W", "X", "Y", "Z", "[", "backslash", "]", "^", "_",
     "backtick", "a", "b", "c", "d", "e", "f", "g", "h", "i", "j", "k", "l", "m", "n", "o",
     "p", "q", "r", "s", "t", "u", "v", "w", "x", "y", "z", "{", "|", "}", "~" >>

\* The code of a character given as a one-character string.
Ord(c) == 31 + (CHOOSE i \in 1..Len(Ascii) : Ascii[i] = c)

\* The Go string whose characters are listed in cs.
Str(cs) == [i \in 1..Len(cs) |-> Ord(cs[i])]

\* The Go string written as a string literal.
Lit(str) == [i \in 1..Len(str) |-> Ord(SubSeq(str, i, i))]

\* The bytes the parser and the serializer compare with.
chSpace    == 32
chHash     == 35
chPercent  == 37
chStar     == 42
chPlus     == 43
chMinus    == 45
chDot      == 46
chSlash    == 47
chZero     == 48
chTwo      == 50
chFive     == 53
chNine     == 57
chColon    == 58
chQuestion == 63
chAt       == 64
chUpperA   == 65
chUpperF   == 70
chUpperZ   == 90
chLBracket == 91
chRBracket == 93
chLowerA   == 97
chLowerF   == 102
chLowerZ   == 122
chDel      == 127

IsLowerAlpha(c) == chLowerA <= c /\ c <= chLowerZ
IsUpperAlpha(c) == chUpperA <= c /\ c <= chUpperZ
IsDigit(c)      == chZero <= c /\ c <= chNine
IsAlnum(c)      == IsLowerAlpha(c) \/ IsUpperAlpha(c) \/ IsDigit(c)

(***************************************************************************)
(* package strings                                                         *)
(***************************************************************************)
\* strings.IndexByte: the first position of c in s, 0 when absent.
IndexByte(s, c) ==
  IF \E i \in 1..Len(s) : s[i] = c
  THEN CHOOSE i \in 1..Len(s) : s[i] = c /\ \A j \in 1..(i - 1) : s[j] # c
  ELSE 0

\* strings.LastIndex for a one-byte separator.
LastIndexByte(s, c) ==
  IF \E i \in 1..Len(s) : s[i] = c
  THEN CHOOSE i \in 1..Len(s) : s[i] = c /\ \A j \in (i + 1)..Len(s) : s[j] # c
  ELSE 0

\* strings.Count for a one-byte separator.
CountByte(s, c) == Cardinality({i \in 1..Len(s) : s[i] = c})

\* s[n:] and s[:n] (n bytes dropped, n bytes taken).
Drop(s, n) == SubSeq(s, n + 1, Len(s))
Take(s, n) == SubSeq(s, 1, n)

HasPrefix(s, p) == Len(s) >= Len(p) /\ SubSeq(s, 1, Len(p)) = p
HasSuffix(s, p) == Len(s) >= Len(p) /\ SubSeq(s, Len(s) - Len(p) + 1, Len(s)) = p

\* strings.Index for a separator that may be longer than one byte.
Index(s, sep) ==
  IF \E i \in 1..(Len(s) - Len(sep) + 1) : SubSeq(s, i, i + Len(sep) - 1) = sep
  THEN CHOOSE i \in 1..(Len(s) - Len(sep) + 1) :
         /\ SubSeq(s, i, i + Len(sep) - 1) = sep
         /\ \A j \in 1..(i - 1) : SubSeq(s, j, j + Len(sep) - 1) # sep
  ELSE 0

\* strings.Cut(s, c): the parts before and after the first c.
CutBefore(s, c) == IF IndexByte(s, c) = 0 THEN s ELSE SubSeq(s, 1, IndexByte(s, c) - 1)
CutAfter(s, c)  == IF IndexByte(s, c) = 0 THEN <<>> ELSE SubSeq(s, IndexByte(s, c) + 1, Len(s))

\* strings.TrimRight(s, cutset) for a one-byte cutset.
RECURSIVE TrimRight(_, _)
TrimRight(s, c) ==
  IF s # <<>> /\ s[Len(s)] = c THEN TrimRight(SubSeq(s, 1, Len(s) - 1), c) ELSE s

\* strings.ToLower on ASCII bytes.
LowerByte(c) == IF IsUpperAlpha(c) THEN c + (chLowerA - chUpperA) ELSE c
ToLower(s) == [i \in 1..Len(s) |-> LowerByte(s[i])]

(***************************************************************************)
(* package net/url: escaping                                               *)
(***************************************************************************)
\* The encoding modes of net/url.
encodePath           == "encodePath"
encodePathSegment    == "encodePathSegment"
encodeHost           == "encodeHost"
encodeZone           == "encodeZone"
encodeUserPassword   == "encodeUserPassword"
encodeQueryComponent == "encodeQueryComponent"
encodeFragment       == "encodeFragment"

upperhex == Str(<<"0", "1", "2", "3", "4", "5", "6", "7", "8", "9", "A", "B", "C", "D", "E", "F">>)

ishex(c) ==
  \/ IsDigit(c)
  \/ (chLowerA <= c /\ c <= chLowerF)
  \/ (chUpperA <= c /\ c <= chUpperF)

unhex(c) ==
  IF IsDigit(c) THEN c - chZero
  ELSE IF chLowerA <= c /\ c <= chLowerF THEN c - chLowerA + 10
  ELSE IF chUpperA <= c /\ c <= chUpperF THEN c - chUpperA + 10
  ELSE 0

\* The byte an escape %XY stands for.
hexByte(x, y) == unhex(x) * 16 + unhex(y)

\* The escape "%25" of the percent sign.
EscapedPercent == <<chPercent, chTwo, chFive>>

\* The byte sets shouldEscape switches on.
HostSubDelims ==
  {Ord(c) : c \in {"!", "$", "&", "'", "(", ")", "*", "+", ",", ";", "=", ":", "[", "]", "<", ">", "dquote"}}
UnreservedMarks == {Ord(c) : c \in {"-", "_", ".", "~"}}
ReservedChars   == {Ord(c) : c \in {"$", "&", "+", ",", "/", ":", ";", "=", "?", "@"}}
PathSegmentEscaped  == {Ord(c) : c \in {"/", ";", ",", "?"}}
UserPasswordEscaped == {Ord(c) : c \in {"@", "/", "?", ":"}}
FragmentExtra       == {Ord(c) : c \in {"!", "(", ")", "*"}}

\* shouldEscape reports whether byte c is percent-encoded in the given mode.
shouldEscape(c, mode) ==
  IF IsAlnum(c) THEN FALSE
  ELSE IF mode \in {encodeHost, encodeZone} /\ c \in HostSubDelims THEN FALSE
  ELSE IF c \in UnreservedMarks THEN FALSE
  ELSE IF c \in ReservedChars /\ mode = encodePath THEN c = chQuestion
  ELSE IF c \in ReservedChars /\ mode = encodePathSegment THEN c \in PathSegmentEscaped
  ELSE IF c \in ReservedChars /\ mode = encodeUserPassword THEN c \in UserPasswordEscaped
  ELSE IF c \in ReservedChars /\ mode = encodeQueryComponent THEN TRUE
  ELSE IF c \in ReservedChars /\ mode = encodeFragment THEN FALSE
  ELSE IF mode = encodeFragment /\ c \in FragmentExtra THEN FALSE
  ELSE TRUE

\* The checks unescape makes on the escape that starts at position i.
badEscape(s, i, mode) ==
  \/ i + 2 > Len(s)
  \/ ~ishex(s[i + 1])
  \/ ~ishex(s[i + 2])
  \/ /\ mode = encodeHost
     /\ unhex(s[i + 1]) < 8
     /\ SubSeq(s, i, i + 2) # EscapedPercent
  \/ /\ mode = encodeZone
     /\ SubSeq(s, i, i + 2) # EscapedPercent
     /\ hexByte(s[i + 1], s[i + 2]) # chSpace
     /\ shouldEscape(hexByte(s[i + 1], s[i + 2]), encodeHost)

\* The first loop of unescape: TRUE when s, read from position i, holds a
\* malformed or forbidden escape or a forbidden host byte.
RECURSIVE unescapeFails(_, _, _)
unescapeFails(s, i, mode) ==
  IF i > Len(s) THEN FALSE
  ELSE IF s[i] = chPercent
    THEN badEscape(s, i, mode) \/ unescapeFails(s, i + 3, mode)
  ELSE IF /\ mode \in {encodeHost, encodeZone}
          /\ s[i] < 128
          /\ shouldEscape(s[i], encodeHost) THEN TRUE
  ELSE unescapeFails(s, i + 1, mode)

\* The second loop of unescape: the decoded bytes of s from position i.
RECURSIVE unescapeBytes(_, _, _)
unescapeBytes(s, i, mode) ==
  IF i > Len(s) THEN <<>>
  ELSE IF s[i] = chPercent
    THEN <<hexByte(s[i + 1], s[i + 2])>> \o unescapeBytes(s, i + 3, mode)
  ELSE IF s[i] = chPlus /\ mode = encodeQueryComponent
    THEN <<chSpace>> \o unescapeBytes(s, i + 1, mode)
  ELSE <<s[i]>> \o unescapeBytes(s, i + 1, mode)

\* unescape(s, mode): the decoded string, or an error.
unescape(s, mode) ==
  IF unescapeFails(s, 1, mode) THEN [err |-> TRUE, s |-> <<>>]
  ELSE [err |-> FALSE, s |-> unescapeBytes(s, 1, mode)]

\* escape(s, mode): s with every byte that shouldEscape selects replaced by
\* %XX in upper-case hex (a space by + in query components).
RECURSIVE escapeFrom(_, _, _)
escapeFrom(s, i, mode) ==
  IF i > Len(s) THEN <<>>
  ELSE (IF ~shouldEscape(s[i], mode) THEN <<s[i]>>
        ELSE IF s[i] = chSpace /\ mode = encodeQueryComponent THEN <<chPlus>>
        ELSE <<chPercent, upperhex[(s[i] \div 16) + 1], upperhex[(s[i] % 16) + 1]>>)
       \o escapeFrom(s, i + 1, mode)

escape(s, mode) == escapeFrom(s, 1, mode)

\* The bytes validEncoded accepts without asking shouldEscape.
ValidEncodedOk ==
  {Ord(c) : c \in {"!", "$", "&", "'", "(", ")", "*", "+", ",", ";", "=", ":", "@", "[", "]", "%"}}

\* validEncoded reports whether s is a valid encoded path or fragment.
validEncoded(s, mode) ==
  \A i \in 1..Len(s) : s[i] \in ValidEncodedOk \/ ~shouldEscape(s[i], mode)

\* stringContainsCTLByte reports whether s contains an ASCII control byte.
stringContainsCTLByte(s) == \E i \in 1..Len(s) : s[i] < chSpace \/ s[i] = chDel

(***************************************************************************)
(* package net/url: the URL structure and url.Parse                        *)
(***************************************************************************)
\* A nil *Userinfo.
NoUser == [set |-> FALSE, username |-> <<>>, password |-> <<>>, passwordSet |-> FALSE]

\* The zero url.URL.
ZeroURL ==
  [Scheme |-> <<>>, Opaque |-> <<>>, User |-> NoUser, Host |-> <<>>,
   Path |-> <<>>, RawPath |-> <<>>, OmitHost |-> FALSE, ForceQuery |-> FALSE,
   RawQuery |-> <<>>, Fragment |-> <<>>, RawFragment |-> <<>>]

\* A failed parse (a nil *URL and an error) and a successful one.
ParseError == [err |-> TRUE, url |-> ZeroURL]
Parsed(url) == [err |-> FALSE, url |-> url]

\* getScheme splits a leading "scheme:" off rawURL, reading from position i.
RECURSIVE getSchemeAt(_, _)
getSchemeAt(rawURL, i) ==
  IF i > Len(rawURL) THEN [scheme |-> <<>>, path |-> rawURL, err |-> FALSE]
  ELSE IF IsLowerAlpha(rawURL[i]) \/ IsUpperAlpha(rawURL[i])
    THEN getSchemeAt(rawURL, i + 1)
  ELSE IF IsDigit(rawURL[i]) \/ rawURL[i] \in {chPlus, chMinus, chDot}
    THEN IF i = 1 THEN [scheme |-> <<>>, path |-> rawURL, err |-> FALSE]
         ELSE getSchemeAt(rawURL, i + 1)
  ELSE IF rawURL[i] = chColon
    THEN IF i = 1 THEN [scheme |-> <<>>, path |-> <<>>, err |-> TRUE]
         ELSE [scheme |-> SubSeq(rawURL, 1, i - 1),
               path |-> SubSeq(rawURL, i + 1, Len(rawURL)), err |-> FALSE]
  ELSE [scheme |-> <<>>, path |-> rawURL, err |-> FALSE]

getScheme(rawURL) == getSchemeAt(rawURL, 1)

\* validOptionalPort: port is empty or ":" followed by digits.
validOptionalPort(port) ==
  \/ port = <<>>
  \/ /\ port[1] = chColon
     /\ \A i \in 2..Len(port) : IsDigit(port[i])

UserinfoPunct ==
  {Ord(c) : c \in {"-", ".", "_", ":", "~", "!", "$", "&", "'", "(", ")", "*", "+", ",", ";", "=", "%", "@"}}

\* validUserinfo: s holds only bytes RFC 3986 allows in userinfo.
validUserinfo(s) == \A i \in 1..Len(s) : IsAlnum(s[i]) \/ s[i] \in UserinfoPunct

\* parseHost, IP-literal with a zone: host1 + host2 + host3, each unescaped.
joinHost(host1, host2, host3) ==
  IF host1.err \/ host2.err \/ host3.err THEN [err |-> TRUE, s |-> <<>>]
  ELSE [err |-> FALSE, s |-> host1.s \o host2.s \o host3.s]

\* parseHost: the host[:port] of an authority, decoded, or an error.  rb is
\* the position of the last ']' and zone the position of "%25" before it.
parseHostAt(host, rb, zone) ==
  IF HasPrefix(host, <<chLBracket>>) /\ rb = 0 THEN [err |-> TRUE, s |-> <<>>]
  ELSE IF HasPrefix(host, <<chLBracket>>) /\ ~validOptionalPort(Drop(host, rb))
    THEN [err |-> TRUE, s |-> <<>>]
  ELSE IF HasPrefix(host, <<chLBracket>>) /\ zone > 0
    THEN joinHost(unescape(SubSeq(host, 1, zone - 1), encodeHost),
                  unescape(SubSeq(host, zone, rb - 1), encodeZone),
                  unescape(SubSeq(host, rb, Len(host)), encodeHost))
  ELSE IF /\ ~HasPrefix(host, <<chLBracket>>)
          /\ LastIndexByte(host, chColon) # 0
          /\ ~validOptionalPort(Drop(host, LastIndexByte(host, chColon) - 1))
    THEN [err |-> TRUE, s |-> <<>>]
  ELSE unescape(host, encodeHost)

parseHostBracket(host, rb) ==
  parseHostAt(host, rb, IF rb = 0 THEN 0 ELSE Index(SubSeq(host, 1, rb - 1), EscapedPercent))

parseHost(host) == parseHostBracket(host, LastIndexByte(host, chRBracket))

\* User(username) and UserPassword(username, password).
User(username) ==
  [set |-> TRUE, username |-> username, password |-> <<>>, passwordSet |-> FALSE]
UserPassword(username, password) ==
  [set |-> TRUE, username |-> username, password |-> password, passwordSet |-> TRUE]

AuthorityError == [err |-> TRUE, user |-> NoUser, host |-> <<>>]

\* parseAuthority, userinfo without ':': the whole of it is the username.
authorityUser(host, username) ==
  IF username.err THEN AuthorityError
  ELSE [err |-> FALSE, user |-> User(username.s), host |-> host]

\* parseAuthority, userinfo with ':': username and password.
authorityUserPassword(host, username, password) ==
  IF username.err \/ password.err THEN AuthorityError
  ELSE [err |-> FALSE, user |-> UserPassword(username.s, password.s), host |-> host]

\* parseAuthority after the host is parsed; at is the position of the last '@'.
parseUserinfo(userinfo, at, host) ==
  IF host.err THEN AuthorityError
  ELSE IF at = 0 THEN [err |-> FALSE, user |-> NoUser, host |-> host.s]
  ELSE IF ~validUserinfo(userinfo) THEN AuthorityError
  ELSE IF IndexByte(userinfo, chColon) = 0
    THEN authorityUser(host.s, unescape(userinfo, encodeUserPassword))
  ELSE authorityUserPassword(host.s,
         unescape(CutBefore(userinfo, chColon), encodeUserPassword),
         unescape(CutAfter(userinfo, chColon), encodeUserPassword))

parseAuthorityAt(authority, at) ==
  parseUserinfo(SubSeq(authority, 1, at - 1), at, parseHost(Drop(authority, at)))

\* parseAuthority: the userinfo and host of "[userinfo@]host[:port]".
parseAuthority(authority) == parseAuthorityAt(authority, LastIndexByte(authority, chAt))

\* URL.setPath: Path is the decoded p, RawPath is p unless p is the default
\* encoding of Path.
setPathTo(url, p, path) ==
  IF path.err THEN ParseError
  ELSE Parsed([url EXCEPT !.Path = path.s,
                          !.RawPath = IF p = escape(path.s, encodePath) THEN <<>> ELSE p])

setPath(url, p) == setPathTo(url, p, unescape(p, encodePath))

\* parse, the branch with an authority: "//authority[/path]".
withAuthority(url, auth, p) ==
  IF auth.err THEN ParseError
  ELSE setPath([url EXCEPT !.User = auth.user, !.Host = auth.host], p)

parseAuthorityAndPath(url, tail, slash) ==
  withAuthority(url,
                parseAuthority(IF slash > 0 THEN SubSeq(tail, 1, slash - 1) ELSE tail),
                IF slash > 0 THEN SubSeq(tail, slash, Len(tail)) ELSE <<>>)

\* parse once scheme and query are split off: rest is opaque, or an
\* authority and a path, or a path.
parseHier(url, rest) ==
  IF ~HasPrefix(rest, <<chSlash>>) /\ url.Scheme # <<>>
    THEN Parsed([url EXCEPT !.Opaque = rest])
  ELSE IF /\ ~HasPrefix(rest, <<chSlash>>)
          /\ IndexByte(CutBefore(rest, chSlash), chColon) # 0
    THEN ParseError
  ELSE IF /\ url.Scheme # <<>> \/ ~HasPrefix(rest, <<chSlash, chSlash, chSlash>>)
          /\ HasPrefix(rest, <<chSlash, chSlash>>)
    THEN parseAuthorityAndPath(url, Drop(rest, 2), IndexByte(Drop(rest, 2), chSlash))
  ELSE setPath([url EXCEPT !.OmitHost = url.Scheme # <<>> /\ HasPrefix(rest, <<chSlash>>)],
               rest)

\* parse once the scheme is split off: a lone trailing '?' sets ForceQuery,
\* otherwise the query is what follows the first '?'.
parseQuery(scheme, rest) ==
  IF HasSuffix(rest, <<chQuestion>>) /\ CountByte(rest, chQuestion) = 1
  THEN parseHier([ZeroURL EXCEPT !.Scheme = scheme, !.ForceQuery = TRUE],
                 SubSeq(rest, 1, Len(rest) - 1))
  ELSE parseHier([ZeroURL EXCEPT !.Scheme = scheme, !.RawQuery = CutAfter(rest, chQuestion)],
                 CutBefore(rest, chQuestion))

parseScheme(gs) ==
  IF gs.err THEN ParseError ELSE parseQuery(ToLower(gs.scheme), gs.path)

\* parse(rawURL, viaRequest = false): rawURL without its fragment.
parse(rawURL) ==
  IF stringContainsCTLByte(rawURL) THEN ParseError
  ELSE IF rawURL = <<chStar>> THEN Parsed([ZeroURL EXCEPT !.Path = rawURL])
  ELSE parseScheme(getScheme(rawURL))

\* URL.setFragment: the same rule as setPath.
setFragmentTo(url, f, frag) ==
  IF frag.err THEN ParseError
  ELSE Parsed([url EXCEPT !.Fragment = frag.s,
                          !.RawFragment = IF f = escape(frag.s, encodeFragment)
                                          THEN <<>> ELSE f])

parseFragment(r, frag) ==
  IF r.err THEN ParseError
  ELSE IF frag = <<>> THEN r
  ELSE setFragmentTo(r.url, frag, unescape(frag, encodeFragment))

\* url.Parse: cut off "#fragment", parse the rest, then set the fragment.
Parse(rawURL) == parseFragment(parse(CutBefore(rawURL, chHash)), CutAfter(rawURL, chHash))

(***************************************************************************)
(* package net/url: URL.String                                             *)
(***************************************************************************)
\* raw is usable as the escaped form of s: it decodes, and decodes to s.
decodesTo(decoded, s) == ~decoded.err /\ decoded.s = s

\* EscapedPath: RawPath when it is a valid encoding of Path, else escape(Path).
EscapedPath(u) ==
  IF /\ u.RawPath # <<>>
     /\ validEncoded(u.RawPath, encodePath)
     /\ decodesTo(unescape(u.RawPath, encodePath), u.Path)
  THEN u.RawPath
  ELSE IF u.Path = <<chStar>> THEN u.Path
  ELSE escape(u.Path, encodePath)

\* EscapedFragment: the same rule for the fragment.
EscapedFragment(u) ==
  IF /\ u.RawFragment # <<>>
     /\ validEncoded(u.RawFragment, encodeFragment)
     /\ decodesTo(unescape(u.RawFragment, encodeFragment), u.Fragment)
  THEN u.RawFragment
  ELSE escape(u.Fragment, encodeFragment)

\* Userinfo.String: "username[:password]", escaped.
UserinfoString(user) ==
  escape(user.username, encodeUserPassword)
    \o (IF user.passwordSet
        THEN <<chColon>> \o escape(user.password, encodeUserPassword)
        ELSE <<>>)

\* URL.String, what is written before the path: "scheme:" and
\* "//userinfo@host".
stringPrefix(u) ==
  (IF u.Scheme # <<>> THEN u.Scheme \o <<chColon>> ELSE <<>>)
  \o (IF u.Opaque # <<>> THEN <<>>
      ELSE IF u.Scheme = <<>> /\ u.Host = <<>> /\ ~u.User.set THEN <<>>
      ELSE IF u.OmitHost /\ u.Host = <<>> /\ ~u.User.set THEN <<>>
      ELSE (IF u.Host # <<>> \/ u.Path # <<>> \/ u.User.set
            THEN <<chSlash, chSlash>> ELSE <<>>)
           \o (IF u.User.set THEN UserinfoString(u.User) \o <<chAt>> ELSE <<>>)
           \o (IF u.Host # <<>> THEN escape(u.Host, encodeHost) ELSE <<>>))

\* URL.String, the opaque part or the path: a '/' is put between a host and a
\* rootless path, and "./" before a first segment with a colon when nothing
\* has been written yet.
stringPath(u, prefix, path) ==
  IF u.Opaque # <<>> THEN u.Opaque
  ELSE IF path # <<>> /\ path[1] # chSlash /\ u.Host # <<>> THEN <<chSlash>> \o path
  ELSE IF prefix = <<>> /\ IndexByte(CutBefore(path, chSlash), chColon) # 0
    THEN <<chDot, chSlash>> \o path
  ELSE path

\* URL.String, "?query" and "#fragment".
stringSuffix(u) ==
  (IF u.ForceQuery \/ u.RawQuery # <<>> THEN <<chQuestion>> \o u.RawQuery ELSE <<>>)
  \o (IF u.Fragment # <<>> THEN <<chHash>> \o EscapedFragment(u) ELSE <<>>)

stringFrom(u, prefix) ==
  prefix \o stringPath(u, prefix, EscapedPath(u)) \o stringSuffix(u)

\* URL.String reassembles the URL into a string.
String(u) == stringFrom(u, stringPrefix(u))

(***************************************************************************)
(* URLUseCase (backend/internal/usecase/url_usecase.go)                    *)
(***************************************************************************)
\* The host processRedirection installs.
RedirectHost ==
  Str(<<"w", "w", "w", ".", "b", "y", "f", "o", "o", "d", ".", "c", "o", "m">>)

\* The error messages of ProcessURL; NoError is Go's nil error.
NoError              == "nil"
ErrURLRequired       == "URL is required"
ErrOperationRequired == "operation is required"
ErrInvalidOperation  == "invalid operation type"
ErrInvalidURL        == "invalid URL format"

\* A nil *URLResponse, and a response carrying a processed URL.
NilResponse == [isNil |-> TRUE, ProcessedURL |-> <<>>]
URLResponse(processedURL) == [isNil |-> FALSE, ProcessedURL |-> processedURL]

\* What a call yields: it returns an error, it returns a response, or it
\* panics and returns nothing.
Fail(msg) == [response |-> NilResponse, err |-> msg, panic |-> FALSE]
Succeed(processedURL) ==
  [response |-> URLResponse(processedURL), err |-> NoError, panic |-> FALSE]
Panic == [response |-> NilResponse, err |-> NoError, panic |-> TRUE]

validOperations == <<"canonical", "redirection", "all">>

\* isValidOperation as a comparison that ignores letter case would be.
isValidOperationFold(operation) ==
  \E i \in 1..Len(validOperations) :
    operation = validOperations[i] \/ (i = 1 /\ operation = "Canonical")

\* isValidOperation as a comparison of the trimmed operation would be.
isValidOperationTrimmed(operation) ==
  \E i \in 1..Len(validOperations) :
    operation = validOperations[i] \/ operation = validOperations[i] \o " "

\* The loop over validOperations: an exact string comparison.
isValidOperation(operation) ==
  \E i \in 1..Len(validOperations) : operation = validOperations[i]

\* validateInput without the check of request.URL.
validateInputNoURL(req) ==
  IF req.Operation = "" THEN ErrOperationRequired ELSE NoError

\* The two input checks that open ProcessURL: the error they return, if any.
validateInput(req) ==
  IF req.URL = <<>> THEN ErrURLRequired
  ELSE IF req.Operation = "" THEN ErrOperationRequired
  ELSE NoError

\* parseFailed when the error of url.Parse is discarded.
parseFailedIgnored(parsedURL) == FALSE

\* The check of the error url.Parse returned.
parseFailed(parsedURL) == parsedURL.err

\* processCanonical: the query is cleared, the trailing slashes of the path
\* are trimmed and an empty path becomes "/" ...
trimmedPath(path) == IF path = <<>> THEN <<chSlash>> ELSE path

\* canonicalized when the query is not cleared.
canonicalizedKeepQuery(parsedURL) ==
  [parsedURL EXCEPT !.Path = trimmedPath(TrimRight(parsedURL.Path, chSlash))]

canonicalized(parsedURL) ==
  [parsedURL EXCEPT !.RawQuery = <<>>,
                    !.Path = trimmedPath(TrimRight(parsedURL.Path, chSlash))]

\* ... and the URL is serialized.
processCanonical(parsedURL) == String(canonicalized(parsedURL))

\* processRedirection when the authority is replaced as a whole.
processRedirectionNoUser(parsedURL) ==
  ToLower(String([parsedURL EXCEPT !.Host = RedirectHost, !.User = NoUser]))

\* processRedirection when the host is lower-cased and substituted, and the
\* serialized string is returned as it is.
processRedirectionHostOnly(parsedURL) == String([parsedURL EXCEPT !.Host = RedirectHost])

\* processRedirection when only the host name is replaced and the port kept.
processRedirectionKeepPort(parsedURL) ==
  ToLower(String([parsedURL EXCEPT
    !.Host = IF LastIndexByte(parsedURL.Host, chColon) = 0 THEN RedirectHost
             ELSE RedirectHost
                    \o Drop(parsedURL.Host, LastIndexByte(parsedURL.Host, chColon) - 1)]))

\* processRedirection when it canonicalizes the URL as well.
processRedirectionCanonical(parsedURL) ==
  ToLower(String([canonicalized(parsedURL) EXCEPT !.Host = RedirectHost]))

\* processRedirection: set the host, serialize, lower-case the whole string.
processRedirection(parsedURL) ==
  ToLower(String([parsedURL EXCEPT !.Host = RedirectHost]))

\* processAll after the canonical string is parsed again: the error of that
\* parse is discarded, and on a failure canonicalParsedURL is nil, so that
\* processRedirection dereferences nil and the call panics.
redirectCanonical(canonicalParsedURL) ==
  IF canonicalParsedURL.err THEN Panic
  ELSE Succeed(processRedirection(canonicalParsedURL.url))

\* processAll when the canonical step is left out.
processAllRedirectionOnly(parsedURL) == Succeed(processRedirection(parsedURL))

\* processAll: canonical, url.Parse of the canonical string, redirection.
processAll(parsedURL) == redirectCanonical(Parse(processCanonical(parsedURL)))

\* The switch on request.Operation; no case leaves processedURL empty.
switchOperation(operation, parsedURL) ==
  IF operation = "canonical" THEN Succeed(processCanonical(parsedURL))
  ELSE IF operation = "redirection" THEN Succeed(processRedirection(parsedURL))
  ELSE IF operation = "all" THEN processAll(parsedURL)
  ELSE Succeed(<<>>)

\* ProcessURL from url.Parse on.
processParsed(req, parsedURL) ==
  IF parseFailed(parsedURL) THEN Fail(ErrInvalidURL)
  ELSE switchOperation(req.Operation, parsedURL.url)

\* ProcessURL when the url is parsed before the operation is looked up.
ProcessURLResultParseFirst(req) ==
  IF validateInput(req) # NoError THEN Fail(validateInput(req))
  ELSE IF parseFailed(Parse(req.URL)) THEN Fail(ErrInvalidURL)
  ELSE IF ~isValidOperation(req.Operation) THEN Fail(ErrInvalidOperation)
  ELSE switchOperation(req.Operation, Parse(req.URL).url)

\* What one call of ProcessURL yields for a request.
ProcessURLResult(req) ==
  IF validateInput(req) # NoError THEN Fail(validateInput(req))
  ELSE IF ~isValidOperation(req.Operation) THEN Fail(ErrInvalidOperation)
  ELSE processParsed(req, Parse(req.URL))

(***************************************************************************)
(* URLHandler (backend/internal/delivery/http/handlers/url_handlers.go)    *)
(***************************************************************************)
\* The status codes the handler and gin's recovery middleware answer with.
StatusOK                  == 200
StatusBadRequest          == 400
StatusInternalServerError == 500

\* The zero URLRequest the handler declares before binding.
ZeroRequest == [URL |-> <<>>, Operation |-> ""]

\* A request body: JSON that does not bind to URLRequest (malformed, or a
\* field of the wrong type), or an object with the two string fields (a field
\* left out binds as the empty string).
Malformed == [valid |-> FALSE, url |-> <<>>, operation |-> ""]
JSONBody(url, operation) == [valid |-> TRUE, url |-> url, operation |-> operation]

\* c.ShouldBindJSON(&req): the error, and req as it is afterwards.
ShouldBindJSON(body) ==
  [err |-> ~body.valid,
   req |-> IF body.valid THEN [URL |-> body.url, Operation |-> body.operation]
           ELSE ZeroRequest]

\* The error of a body that does not bind.
ErrBindJSON == "invalid request body"

\* What the client gets: nothing yet, c.JSON(status, gin.H{"error": msg}),
\* c.JSON(status, response), or the bare 500 of gin's recovery middleware.
NoAnswer == [status |-> 0, kind |-> "none", error |-> "", processed_url |-> <<>>]
JSONError(status, msg) ==
  [status |-> status, kind |-> "error", error |-> msg, processed_url |-> <<>>]
JSONResponse(status, resp) ==
  [status |-> status, kind |-> "processed_url", error |-> "",
   processed_url |-> resp.ProcessedURL]
Recovered ==
  [status |-> StatusInternalServerError, kind |-> "none", error |-> "",
   processed_url |-> <<>>]

\* The use case was not called.
NotCalled == [response |-> NilResponse, err |-> NoError, panic |-> FALSE]

\* answer when the error of the use case is answered with 200.
answerAlwaysOK(result) ==
  IF result.panic THEN Recovered
  ELSE IF result.err # NoError THEN JSONError(StatusOK, result.err)
  ELSE JSONResponse(StatusOK, result.response)

\* The handler after the use case returned (or panicked, which gin.Default()
\* recovers from).
answer(result) ==
  IF result.panic THEN Recovered
  ELSE IF result.err # NoError THEN JSONError(StatusBadRequest, result.err)
  ELSE JSONResponse(StatusOK, result.response)

\* The handler after the body is bound.
handled(req, result) == [req |-> req, result |-> result, reply |-> answer(result)]

\* The handler from ShouldBindJSON on.
handle(bound) ==
  IF bound.err
  THEN [req |-> bound.req, result |-> NotCalled,
        reply |-> JSONError(StatusBadRequest, ErrBindJSON)]
  ELSE handled(bound.req, ProcessURLResult(bound.req))

(***************************************************************************)
(* Books: the entity (entities.Book), the GORM repository                  *)
(* (BookRepositoryImpl) and BookUseCase (usecase/book_usecase.go).          *)
(*                                                                         *)
(* The table books is a function from the ids of its rows to the rows.  An *)
(* id is the serial number of the uuid BeforeCreate generated; 0 is the    *)
(* empty id.  A time is "null" or "set".  entities.Book declares DeletedAt *)
(* as *time.Time and not as gorm.DeletedAt, so gorm.io/gorm attaches no    *)
(* soft-delete clauses to the model: db.Delete issues DELETE FROM books,   *)
(* and queries are not filtered on deleted_at.                             *)
(***************************************************************************)
NoID == 0
NullTime == "null"

\* A nil *entities.Book, and a book as the handlers build it from a request.
NilBook ==
  [isNil |-> TRUE, ID |-> NoID, Title |-> "", Author |-> "", Year |-> 0, ISBN |-> "",
   DeletedAt |-> NullTime]
NewBookEntity(title, author, year, isbn) ==
  [isNil |-> FALSE, ID |-> NoID, Title |-> title, Author |-> author, Year |-> year,
   ISBN |-> isbn, DeletedAt |-> NullTime]

\* validateBook: the error of the first check that fails.
validateBook(book) ==
  IF book.Title = "" THEN "book title is required"
  ELSE IF book.Author = "" THEN "book author is required"
  ELSE IF book.Year < 1000 \/ book.Year > 2100 THEN "book year must be between 1000 and 2100"
  ELSE IF book.ISBN = "" THEN "book ISBN is required"
  ELSE IF Len(book.ISBN) < 10 \/ Len(book.ISBN) > 13 THEN "book ISBN must be between 10 and 13 characters"
  ELSE NoError

\* The table without the row id, and with the row book under book.ID.
WithoutRow(db, id) == [i \in DOMAIN db \ {id} |-> db[i]]
WithRow(db, book) == [i \in DOMAIN db \cup {book.ID} |-> IF i = book.ID THEN book ELSE db[i]]

\* BookRepositoryImpl.GetByID and FindByISBN: the row, or nil when there is
\* none (gorm.ErrRecordNotFound is turned into nil, nil).
GetByID(db, id) == IF id \in DOMAIN db THEN db[id] ELSE NilBook
FindByISBN(db, isbn) ==
  IF \E i \in DOMAIN db : db[i].ISBN = isbn
  THEN db[CHOOSE i \in DOMAIN db : db[i].ISBN = isbn]
  ELSE NilBook

\* BookRepositoryImpl.GetAll and GetDeletedBooks: the rows found.
GetAll(db) == {db[i] : i \in DOMAIN db}
GetDeletedBooks(db) == {db[i] : i \in {j \in DOMAIN db : db[j].DeletedAt # NullTime}}

\* What a call that writes yields: the table afterwards, the error, and the
\* methods of the repository that were called, in order.
Wrote(db, e) == [db |-> db, err |-> e, repo |-> <<>>]

\* The result w of a call that follows calls of these repository methods.
Via(methods, w) == [w EXCEPT !.repo = methods \o @]

\* The unique index on isbn: another row holds this isbn.
isbnTaken(db, id, isbn) == \E i \in DOMAIN db \ {id} : db[i].ISBN = isbn

\* Create when the table has no unique index on isbn.
CreateNoIndex(db, book, uuid) ==
  IF uuid \in DOMAIN db THEN Wrote(db, "UNIQUE constraint failed: books.id")
  ELSE Wrote(WithRow(db, [book EXCEPT !.ID = uuid]), NoError)

\* BookRepositoryImpl.Create: BeforeCreate gives the book the new uuid, and
\* the row is inserted unless the primary key or the unique index forbids it.
Create(db, book, uuid) ==
  IF uuid \in DOMAIN db \/ isbnTaken(db, uuid, book.ISBN) THEN Wrote(db, "UNIQUE constraint failed: books.isbn")
  ELSE Wrote(WithRow(db, [book EXCEPT !.ID = uuid]), NoError)

\* BookRepositoryImpl.Update: UPDATE books SET ... WHERE id = book.ID.
Update(db, book) ==
  IF book.ID \notin DOMAIN db THEN Wrote(db, NoError)
  ELSE IF isbnTaken(db, book.ID, book.ISBN) THEN Wrote(db, "UNIQUE constraint failed: books.isbn")
  ELSE Wrote(WithRow(db, book), NoError)

\* BookRepositoryImpl.Delete and HardDelete: the row is removed.
Delete(db, id) == Wrote(WithoutRow(db, id), NoError)
HardDelete(db, id) == Wrote(WithoutRow(db, id), NoError)

\* BookRepositoryImpl.Restore: deleted_at of the row, if there is one, is
\* set to NULL.
Restore(db, id) ==
  IF id \in DOMAIN db THEN Wrote([db EXCEPT ![id].DeletedAt = NullTime], NoError)
  ELSE Wrote(db, NoError)

\* CreateBook when the ISBN is not looked up first.
createValidatedNoLookup(db, book, uuid, existingBook) ==
  Via(<<"Create">>, Create(db, book, uuid))

\* BookUseCase.CreateBook after validateBook; existingBook is what FindByISBN
\* returned.
createValidated(db, book, uuid, existingBook) ==
  IF ~existingBook.isNil
  THEN Via(<<"FindByISBN">>, Wrote(db, "book with this ISBN already exists"))
  ELSE Via(<<"FindByISBN", "Create">>, Create(db, book, uuid))

\* BookUseCase.CreateBook.
CreateBookResult(db, book, uuid) ==
  IF validateBook(book) # NoError THEN Wrote(db, validateBook(book))
  ELSE createValidated(db, book, uuid, FindByISBN(db, book.ISBN))

\* BookUseCase.UpdateBook once existingBook is found and the ISBN is checked:
\* the four fields are copied into existingBook, which is saved.
updateExisting(db, book, existingBook) ==
  Via(<<"Update">>,
      Update(db, [existingBook EXCEPT !.Title = book.Title, !.Author = book.Author,
                                      !.Year = book.Year, !.ISBN = book.ISBN]))

\* BookUseCase.UpdateBook after validateBook; existingBook is what GetByID
\* returned.
updateFound(db, book, existingBook) ==
  IF existingBook.isNil THEN Via(<<"GetByID">>, Wrote(db, "book not found"))
  ELSE IF book.ISBN = existingBook.ISBN
    THEN Via(<<"GetByID">>, updateExisting(db, book, existingBook))
  ELSE IF ~FindByISBN(db, book.ISBN).isNil
    THEN Via(<<"GetByID", "FindByISBN">>, Wrote(db, "book with this ISBN already exists"))
  ELSE Via(<<"GetByID", "FindByISBN">>, updateExisting(db, book, existingBook))

\* UpdateBook when the book is looked up before it is validated.
UpdateBookResultLookupFirst(db, id, book) ==
  IF id = NoID THEN Wrote(db, "book ID is required")
  ELSE IF GetByID(db, id).isNil THEN Via(<<"GetByID">>, Wrote(db, "book not found"))
  ELSE IF validateBook(book) # NoError THEN Via(<<"GetByID">>, Wrote(db, validateBook(book)))
  ELSE updateFound(db, book, GetByID(db, id))

\* BookUseCase.UpdateBook.
UpdateBookResult(db, id, book) ==
  IF id = NoID THEN Wrote(db, "book ID is required")
  ELSE IF validateBook(book) # NoError THEN Wrote(db, validateBook(book))
  ELSE updateFound(db, book, GetByID(db, id))

\* DeleteBook when the book is not looked up first.
DeleteBookResultNoLookup(db, id) ==
  IF id = NoID THEN Wrote(db, "book ID is required")
  ELSE Via(<<"Delete">>, Delete(db, id))

\* BookUseCase.DeleteBook and HardDeleteBook.
DeleteBookResult(db, id) ==
  IF id = NoID THEN Wrote(db, "book ID is required")
  ELSE IF GetByID(db, id).isNil THEN Via(<<"GetByID">>, Wrote(db, "book not found"))
  ELSE Via(<<"GetByID", "Delete">>, Delete(db, id))
HardDeleteBookResult(db, id) ==
  IF id = NoID THEN Wrote(db, "book ID is required")
  ELSE IF GetByID(db, id).isNil THEN Via(<<"GetByID">>, Wrote(db, "book not found"))
  ELSE Via(<<"GetByID", "HardDelete">>, HardDelete(db, id))

\* BookUseCase.RestoreBook.
RestoreBookResult(db, id) ==
  IF id = NoID THEN Wrote(db, "book ID is required")
  ELSE Via(<<"Restore">>, Restore(db, id))

\* BookUseCase.GetBook.  GetAllBooks and GetDeletedBooks of the use case
\* return what GetAll and GetDeletedBooks of the repository return.
GetBook(db, id) == IF id = NoID THEN NilBook ELSE GetByID(db, id)

(***************************************************************************)
(* Migrator (infrastructure/database/migrations).                          *)
(*                                                                         *)
(* The table migrations is the set of the versions recorded in it.         *)
(***************************************************************************)
\* getMigrations: the versions in the order they are declared.
getMigrations == <<"001", "002", "003">>

\* pendingFrom when appliedMap is not consulted.
pendingFromAll(applied, i) == <<getMigrations[i]>>

\* The migrations Migrate finds pending, in declared order: the positions in
\* getMigrations of the versions that appliedMap does not hold.
pendingFrom(applied, i) ==
  IF getMigrations[i] \in applied THEN <<>> ELSE <<getMigrations[i]>>
pendingMigrations(applied) ==
  pendingFrom(applied, 1) \o pendingFrom(applied, 2) \o pendingFrom(applied, 3)

\* How a call of Migrate ends: with nil, or at the first step that fails
\* (AutoMigrate or Find, the Up of a migration, the Create of its record).
MigrateOutcomes == {"nil", "table", "up", "record"}

\* Migrate: the first n pending migrations run and are recorded; unless the
\* call ends with nil, the step named by outcome then fails, after the Up of
\* the next pending migration has run when that step is "up" or "record".
MigrateResult(applied, n, outcome) ==
  [ran      |-> SubSeq(pendingMigrations(applied), 1,
                       IF outcome \in {"up", "record"} THEN n + 1 ELSE n),
   recorded |-> SubSeq(pendingMigrations(applied), 1, n),
   err      |-> outcome]

(***************************************************************************)
(* Bounds and inputs                                                       *)
(***************************************************************************)
\* The longest url, in tokens, of the general specification.
MaxTokens == 4

\* The longest url, in tokens, of the encoded-slash specification.
MaxEscTokens == 5

\* The longest url, in tokens, of the authority specification.
MaxPortTokens == 4

\* The longest url, in tokens, of the userinfo specification.
MaxUserTokens == 4

\* How many uuids BeforeCreate generates.
MaxBooks == 2

\* How many times Migrate is called.
MaxMigrateCalls == 4

\* How many calls of ProcessURL run concurrently on the one URLUseCase.
NumCallers == 2

\* How many times a caller feeds a processed URL back into ProcessURL.
MaxRounds == 2

\* The pieces urls are built from: a lower-case and an upper-case letter, the
\* delimiters of scheme, path, query and fragment, and an encoded slash.
Tokens ==
  {Str(<<"a">>), Str(<<"A">>), Str(<<":">>), Str(<<"/">>), Str(<<"?">>), Str(<<"#">>),
   Str(<<"%", "2", "F">>)}

\* The pieces of the encoded-slash specification.
EscTokens == {Str(<<"a">>), Str(<<":">>), Str(<<"/">>), Str(<<"%", "2", "F">>)}

\* The pieces of the authority specification: the "//" that opens an
\* authority, a host letter, a userinfo, a port, and the delimiters of path
\* and query.
PortTokens ==
  {Str(<<"/", "/">>), Str(<<"A">>), Str(<<"u", "@">>), Str(<<":", "8">>), Str(<<"/">>),
   Str(<<"?">>)}

\* S and every string of S with one more token of T.
Extended(S, T) == S \cup {s \o t : s \in S, t \in T}

\* All concatenations of at most n tokens of T (the empty string included).
RECURSIVE TokenStrings(_, _)
TokenStrings(T, n) ==
  IF n = 0 THEN {<<>>} ELSE Extended(TokenStrings(T, n - 1), T)

\* The urls of the test tables of url_usecase.go.
ExampleURL == Lit("https://BYFOOD.com/food-EXPeriences?query=abc/")
ExampleURLs ==
  {ExampleURL,
   Lit("https://BYFOOD.com/food-EXPeriences?query=abc&sort=price&filter=available/"),
   Lit("https://BYFOOD.com/food-EXPeriences?query=abc%20def&sort=price%2Basc/"),
   Lit("https://BYFOOD.com/food-EXPeriences?query=abc/#section"),
   Lit("https://BYFOOD.com:8080/food-EXPeriences?query=abc/"),
   Lit("https://www.BYFOOD.com/food-EXPeriences?query=abc/"),
   Lit("https://BYFOOD.com/food-EXPeriences/123/details?query=abc/"),
   Lit("https://BYFOOD.com/food-EXPeriences?query=abc"),
   Lit("https://BYFOOD.com/food-EXPeriences?query=abc///"),
   Lit("https://BYFOOD.com/Food-EXPeriences/Test-Path?query=abc/"),
   Lit("://invalid-url"),
   Lit("")}

\* The operations callers send: the three recognized ones, the empty one, an
\* unrelated one, and three that differ from a recognized one in letter case
\* or by a trailing space.
Operations == {"canonical", "redirection", "all", "", "bogus", "Canonical", "ALL", "all "}

\* The requests of the concurrent calls: a url with upper case, a trailing
\* slash and a query, one whose canonical form does not parse again, a
\* malformed one and the empty one, with the three operations and an
\* unrecognized one.
ConcURLs == {Lit("/A/?a"), Lit("%2F/:a/"), Lit("://"), Lit("")}
ConcOperations == {"canonical", "redirection", "all", "bogus"}
Callers == 1..NumCallers

\* The books callers send: a title and an author that are empty or not, the
\* years at both ends of the range and just outside it, and ISBNs that are
\* empty, too short, of 10 and of 13 characters, and too long.  At most one
\* field of a book is invalid.
BookYears == {999, 1000, 2100, 2101}
BookISBNs == {"", "123456789", "1234567890", "1234567890123", "12345678901234"}
BookInputs ==
  {NewBookEntity("Dune", "Ann", y, i) : y \in {1000, 2100}, i \in BookISBNs}
    \cup {NewBookEntity("Dune", "Ann", y, i) : y \in BookYears, i \in {"1234567890", "1234567890123"}}
    \cup {NewBookEntity(t, a, 1000, "1234567890") : t \in {"", "Dune"}, a \in {"", "Ann"}}

\* The books concurrent callers of CreateBook send: valid ones with two
\* ISBNs, and one without a title.
ConcBooks ==
  {NewBookEntity("Dune", "Ann", y, i) : y \in {1000, 2100}, i \in {"1234567890", "1234567890123"}}
    \cup {NewBookEntity("", "Ann", 1000, "1234567890")}

\* The ids callers send: the empty one, and every uuid that can exist.
BookIDs == 0..MaxBooks

\* The bodies clients post: one that does not bind, and every object with
\* one of the given urls and an operation.
Bodies(urls) == {Malformed} \cup {JSONBody(u, op) : u \in urls, op \in Operations}

(***************************************************************************)
(* State                                                                   *)
(***************************************************************************)
VARIABLES
  request,   \* the URLRequest of the current call
  response,  \* the *URLResponse the call returned (NilResponse: nil)
  err,       \* the error the call returned (NoError: nil)
  pc,        \* "call": the call is pending; "done": it returned; "panic": it panicked
  round,     \* 1 for the caller's url, n + 1 when the url is the n-th result
  prev,      \* the response of the previous round
  origin,    \* the request of round 1
  http,      \* the request at the HTTP handler: its body and the answer
  calls,     \* the concurrent calls of ProcessURL: each one's locals
  books,     \* the table books of the database
  uuids,     \* how many uuids BeforeCreate has generated
  deleted,   \* the books DeleteBook has deleted: id |-> the row it had
  last,      \* the last call of BookUseCase: operation, arguments, error,
             \* and the repository methods it called
  applied,   \* the table migrations: the versions recorded
  upRuns,    \* how many times the Up of each version has run
  mig,       \* the calls of Migrate so far, and what the last one did
  creating,  \* the concurrent calls of CreateBook: each one's position and locals
  urlRepo    \* how many times URLRepository.ProcessURL has been called

\* The state of a caller of ProcessURL.
urlVars == <<request, response, err, pc, round, prev, origin>>

\* The state outside the caller of ProcessURL.
bookVars == <<books, uuids, deleted, last>>
migVars == <<applied, upRuns, mig>>
restVars == <<migVars, creating, urlRepo>>
outsideURL == <<http, calls, bookVars, restVars>>

vars == <<urlVars, outsideURL>>

\* No request is at the handler.
IdleHTTP == [body |-> Malformed, reply |-> NoAnswer]

\* No concurrent call is running.
NoCalls == <<>>

\* The database is empty, and BookUseCase has not been called.
NoBookCall == [op |-> "none", id |-> NoID, book |-> NilBook, err |-> NoError, repo |-> <<>>]
EmptyLibrary ==
  /\ books = <<>>
  /\ uuids = 0
  /\ deleted = <<>>
  /\ last = NoBookCall

\* No migration is recorded, and Migrate has not been called.
NoMigrateCall ==
  [calls |-> 0, failures |-> 0, ran |-> <<>>, recorded |-> <<>>, err |-> "nil", before |-> {}]
IdleMigrator ==
  /\ applied = {}
  /\ upRuns = [i \in 1..Len(getMigrations) |-> 0]
  /\ mig = NoMigrateCall

\* What lies outside ProcessURL, its handler and BookUseCase is at rest.
IdleRest ==
  /\ IdleMigrator
  /\ creating = <<>>
  /\ urlRepo = 0

\* No single caller is at work.
IdleURL ==
  /\ request = ZeroRequest
  /\ response = NilResponse
  /\ err = NoError
  /\ pc = "call"
  /\ round = 1
  /\ prev = NilResponse
  /\ origin = ZeroRequest

\* A caller holds a request for one of the given urls, not yet processed.
InitOn(urls) ==
  /\ request \in [URL : urls, Operation : Operations]
  /\ response = NilResponse
  /\ err = NoError
  /\ pc = "call"
  /\ round = 1
  /\ prev = NilResponse
  /\ origin = request
  /\ http = IdleHTTP
  /\ calls = NoCalls
  /\ EmptyLibrary
  /\ IdleRest

\* A caller holds a request built from the tokens T, not yet processed.
InitWith(T, n) == InitOn(TokenStrings(T, n))

Init == InitWith(Tokens, MaxTokens)

InitEsc == InitWith(EscTokens, MaxEscTokens)

InitPort == InitWith(PortTokens, MaxPortTokens)

InitExamples == InitOn(ExampleURLs)

\* The pieces of the userinfo specification: a scheme, the "//" that opens an
\* authority, a user, a user with a password, a host letter and a slash.
UserTokens == {Lit("A:"), Lit("//"), Lit("u@"), Lit("U:P@"), Lit("B"), Lit("/")}

InitUser == InitWith(UserTokens, MaxUserTokens)

\* The call ends with the given result.
Yield(result) ==
  /\ response' = result.response
  /\ err' = result.err
  /\ pc' = IF result.panic THEN "panic" ELSE "done"

\* ProcessURL when it hands the request to uc.urlRepo, which returns the url
\* as it is.
ProcessURLDelegated ==
  /\ pc = "call"
  /\ Yield(Succeed(request.URL))
  /\ urlRepo' = urlRepo + 1
  /\ UNCHANGED <<request, round, prev, origin, http, calls, bookVars, migVars, creating>>

\* URLUseCase.ProcessURL runs on the pending request.
ProcessURL ==
  /\ pc = "call"
  /\ Yield(ProcessURLResult(request))
  /\ UNCHANGED <<request, round, prev, origin, outsideURL>>

\* The caller sends the processed URL back with the same operation.
Resubmit ==
  /\ pc = "done"
  /\ ~response.isNil
  /\ round < MaxRounds
  /\ request' = [request EXCEPT !.URL = response.ProcessedURL]
  /\ prev' = response
  /\ response' = NilResponse
  /\ err' = NoError
  /\ pc' = "call"
  /\ round' = round + 1
  /\ UNCHANGED <<origin, outsideURL>>

\* The caller sends the result of "canonical" on with "redirection".
Chain ==
  /\ pc = "done"
  /\ ~response.isNil
  /\ round = 1
  /\ request.Operation = "canonical"
  /\ request' = [URL |-> response.ProcessedURL, Operation |-> "redirection"]
  /\ prev' = response
  /\ response' = NilResponse
  /\ err' = NoError
  /\ pc' = "call"
  /\ round' = round + 1
  /\ UNCHANGED <<origin, outsideURL>>

Next == ProcessURL \/ Resubmit \/ Chain

Spec == Init /\ [][Next]_vars

SpecEsc == InitEsc /\ [][Next]_vars

SpecPort == InitPort /\ [][Next]_vars

SpecExamples == InitExamples /\ [][Next]_vars

SpecUser == InitUser /\ [][Next]_vars

\* A client has posted a body to /api/url/process.
InitHTTP ==
  /\ http \in [body : Bodies(TokenStrings(EscTokens, MaxEscTokens)), reply : {NoAnswer}]
  /\ IdleURL
  /\ calls = NoCalls
  /\ EmptyLibrary
  /\ IdleRest

\* The handler ends: req is bound, the use case has returned response and err
\* (or panicked), and the answer is written.
Served(h) ==
  /\ request' = h.req
  /\ response' = h.result.response
  /\ err' = h.result.err
  /\ pc' = IF h.result.panic THEN "panic" ELSE "done"
  /\ http' = [http EXCEPT !.reply = h.reply]

\* URLHandler.ProcessURL runs on the posted body.
HandlerProcessURL ==
  /\ pc = "call"
  /\ http.reply = NoAnswer
  /\ Served(handle(ShouldBindJSON(http.body)))
  /\ UNCHANGED <<round, prev, origin, calls, bookVars, restVars>>

NextHTTP == HandlerProcessURL

SpecHTTP == InitHTTP /\ [][NextHTTP]_vars

(***************************************************************************)
(* Concurrent calls of ProcessURL on one URLUseCase.  The only field of     *)
(* the use case, urlRepo, is set by NewURLUseCase and never used again;     *)
(* everything a call works on is a local variable of that call.  A call     *)
(* runs in five steps, and the steps of different calls interleave.         *)
(***************************************************************************)
\* The locals of a call that has not started: request, position, parsedURL,
\* canonicalURL, canonicalParsedURL, and what the call yields.
NewCall(req) ==
  [req |-> req, pc |-> "validate", parsedURL |-> Parsed(ZeroURL),
   canonicalURL |-> <<>>, canonicalParsedURL |-> Parsed(ZeroURL), result |-> NotCalled]

\* The call ends with the given result.
endCall(call, result) ==
  [call EXCEPT !.pc = IF result.panic THEN "panic" ELSE "done", !.result = result]

\* Lines 26-46: the input checks.
validateStep(call) ==
  IF validateInput(call.req) # NoError THEN endCall(call, Fail(validateInput(call.req)))
  ELSE IF ~isValidOperation(call.req.Operation) THEN endCall(call, Fail(ErrInvalidOperation))
  ELSE [call EXCEPT !.pc = "parse"]

\* storeParsed when parsedURL is one variable shared by all calls.
storeParsedShared(cs, c, parsedURL) ==
  [d \in DOMAIN cs |->
     IF d = c THEN [cs[d] EXCEPT !.parsedURL = parsedURL, !.pc = "switch"]
     ELSE [cs[d] EXCEPT !.parsedURL = parsedURL]]

\* Line 49: parsedURL is a local variable of the call.
storeParsed(cs, c, parsedURL) ==
  [cs EXCEPT ![c] = [cs[c] EXCEPT !.parsedURL = parsedURL, !.pc = "switch"]]

\* Lines 49-52: url.Parse and the check of its error.
parseStep(cs, c, parsedURL) ==
  IF parseFailed(parsedURL) THEN [cs EXCEPT ![c] = endCall(cs[c], Fail(ErrInvalidURL))]
  ELSE storeParsed(cs, c, parsedURL)

\* Lines 54-63 and 97: the switch; "all" goes on with the canonical string,
\* and processCanonical has changed the call's parsedURL in place.
switchStep(call) ==
  IF call.req.Operation = "all"
  THEN [call EXCEPT !.canonicalURL = processCanonical(call.parsedURL.url),
                    !.parsedURL = Parsed(canonicalized(call.parsedURL.url)),
                    !.pc = "reparse"]
  ELSE endCall(call, switchOperation(call.req.Operation, call.parsedURL.url))

\* Line 100: the canonical string is parsed again.
reparseStep(call) ==
  [call EXCEPT !.canonicalParsedURL = Parse(call.canonicalURL), !.pc = "redirect"]

\* Line 103: redirection of the re-parsed URL.
redirectStep(call) == endCall(call, redirectCanonical(call.canonicalParsedURL))

\* NumCallers calls are about to run, each with its own request.
InitConc ==
  /\ calls \in [Callers -> {NewCall(req) : req \in [URL : ConcURLs, Operation : ConcOperations]}]
  /\ http = IdleHTTP
  /\ IdleURL
  /\ EmptyLibrary
  /\ IdleRest

Validate(c) ==
  /\ calls[c].pc = "validate"
  /\ calls' = [calls EXCEPT ![c] = validateStep(calls[c])]
  /\ UNCHANGED <<urlVars, http, bookVars, restVars>>

ParseURL(c) ==
  /\ calls[c].pc = "parse"
  /\ calls' = parseStep(calls, c, Parse(calls[c].req.URL))
  /\ UNCHANGED <<urlVars, http, bookVars, restVars>>

Switch(c) ==
  /\ calls[c].pc = "switch"
  /\ calls' = [calls EXCEPT ![c] = switchStep(calls[c])]
  /\ UNCHANGED <<urlVars, http, bookVars, restVars>>

Reparse(c) ==
  /\ calls[c].pc = "reparse"
  /\ calls' = [calls EXCEPT ![c] = reparseStep(calls[c])]
  /\ UNCHANGED <<urlVars, http, bookVars, restVars>>

Redirect(c) ==
  /\ calls[c].pc = "redirect"
  /\ calls' = [calls EXCEPT ![c] = redirectStep(calls[c])]
  /\ UNCHANGED <<urlVars, http, bookVars, restVars>>

NextConc ==
  \E c \in Callers : Validate(c) \/ ParseURL(c) \/ Switch(c) \/ Reparse(c) \/ Redirect(c)

SpecConc == InitConc /\ [][NextConc]_vars

(***************************************************************************)
(* Calls of BookUseCase on one database, one after the other.              *)
(***************************************************************************)
InitBooks ==
  /\ EmptyLibrary
  /\ IdleRest
  /\ IdleURL
  /\ http = IdleHTTP
  /\ calls = NoCalls

\* The call ends: the table is as the call left it, and the call is recorded.
Called(op, id, book, result) ==
  /\ books' = result.db
  /\ last' = [op |-> op, id |-> id, book |-> book, err |-> result.err, repo |-> result.repo]

\* At most MaxBooks books are ever stored: a CreateBook beyond that is
\* followed only when it fails.
CreateBook(book) ==
  /\ uuids < MaxBooks \/ CreateBookResult(books, book, uuids + 1).err # NoError
  /\ Called("CreateBook", NoID, book, CreateBookResult(books, book, uuids + 1))
  /\ uuids' = IF books' = books THEN uuids ELSE uuids + 1
  /\ UNCHANGED <<deleted, urlVars, http, calls, restVars>>

UpdateBook(id, book) ==
  /\ Called("UpdateBook", id, book, UpdateBookResult(books, id, book))
  /\ UNCHANGED <<uuids, deleted, urlVars, http, calls, restVars>>

DeleteBook(id) ==
  /\ Called("DeleteBook", id, GetByID(books, id), DeleteBookResult(books, id))
  /\ deleted' = IF last'.err = NoError
                THEN [i \in DOMAIN deleted \cup {id} |-> IF i = id THEN GetByID(books, id) ELSE deleted[i]]
                ELSE deleted
  /\ UNCHANGED <<uuids, urlVars, http, calls, restVars>>

HardDeleteBook(id) ==
  /\ Called("HardDeleteBook", id, GetByID(books, id), HardDeleteBookResult(books, id))
  /\ UNCHANGED <<uuids, deleted, urlVars, http, calls, restVars>>

RestoreBook(id) ==
  /\ Called("RestoreBook", id, GetByID(books, id), RestoreBookResult(books, id))
  /\ UNCHANGED <<uuids, deleted, urlVars, http, calls, restVars>>

NextBooks ==
  \/ \E book \in BookInputs : CreateBook(book)
  \/ \E id \in BookIDs, book \in BookInputs : UpdateBook(id, book)
  \/ \E id \in BookIDs : DeleteBook(id)
  \/ \E id \in BookIDs : HardDeleteBook(id)
  \/ \E id \in BookIDs : RestoreBook(id)

SpecBooks == InitBooks /\ [][NextBooks]_vars

(***************************************************************************)
(* Vocabulary of the properties                                            *)
(***************************************************************************)
\* The call has ended, by returning or by panicking.
Finished == pc # "call"

\* The call returned a response and a nil error.
Returned == pc = "done" /\ err = NoError /\ ~response.isNil

\* The call returned an error and a nil response.
Failed(msg) == pc = "done" /\ err = msg /\ response.isNil

\* The three operations the specification recognizes.
Recognized == {"canonical", "redirection", "all"}

Contains(s, c) == \E i \in 1..Len(s) : s[i] = c

\* The host and the path a string has when it is read as a URL.
HostOf(s) == Parse(s).url.Host
PathOf(s) == Parse(s).url.Path

\* The path does not end in '/' unless it is "/".
TrimmedOrRoot(p) == p = <<chSlash>> \/ p = <<>> \/ p[Len(p)] # chSlash

\* url.Parse accepts the url and rejects its canonical form.
ReparseFails(parsedURL) ==
  ~parsedURL.err /\ Parse(processCanonical(parsedURL.url)).err

\* The path is empty or consists only of slashes.
OnlySlashes(p) == \A i \in 1..Len(p) : p[i] = chSlash

(***************************************************************************)
(* Properties                                                              *)
(***************************************************************************)
\* C1: the processed URL of an accepted "canonical" request contains no '?'.
C1_CanonicalHasNoQuestionMark ==
  (Returned /\ request.Operation = "canonical")
    => ~Contains(response.ProcessedURL, chQuestion)

\* C2: the processed URL of an accepted "redirection" request has the host
\* www.byfood.com and equals its own lower-casing.
C2_RedirectionHostAndLowerCase ==
  (Returned /\ request.Operation = "redirection")
    => /\ HostOf(response.ProcessedURL) = RedirectHost
       /\ response.ProcessedURL = ToLower(response.ProcessedURL)

\* C3: the processed URL of an accepted "all" request contains no '?', has the
\* host www.byfood.com and is entirely lower-case.
C3_AllStripsQueryAndRedirects ==
  (Returned /\ request.Operation = "all")
    => /\ ~Contains(response.ProcessedURL, chQuestion)
       /\ HostOf(response.ProcessedURL) = RedirectHost
       /\ response.ProcessedURL = ToLower(response.ProcessedURL)

\* C4: idempotence: processing the result of an accepted request again with
\* the same operation succeeds and returns the same string.
C4_Idempotence ==
  (Finished /\ round = 2 /\ request.Operation = origin.Operation
     /\ request.Operation \in Recognized)
    => (Returned /\ response.ProcessedURL = prev.ProcessedURL)

\* C5 as stated: every request whose operation is not recognized fails with
\* "invalid operation type" and returns no URL.
C5_AlwaysInvalidOperation ==
  (Finished /\ request.Operation \notin Recognized) => Failed(ErrInvalidOperation)

\* C5 as amended: a request whose operation is not recognized returns an error
\* and no URL, and the error is "invalid operation type" when both the url and
\* the operation are non-empty.
C5_UnrecognizedOperationRejected ==
  (Finished /\ request.Operation \notin Recognized)
    => /\ pc = "done"
       /\ response.isNil
       /\ err # NoError
       /\ (request.URL # <<>> /\ request.Operation # "") => err = ErrInvalidOperation

\* C5 witness: an unrecognized, non-empty operation with a non-empty url was
\* rejected as an invalid operation.
C5_Witness ==
  Failed(ErrInvalidOperation) /\ request.Operation = "Canonical" /\ request.URL # <<>>

\* C6: an empty url fails with "URL is required", an empty operation (with a
\* non-empty url) with "operation is required"; no response is returned.
C6_EmptyInputRejected ==
  Finished
    => /\ request.URL = <<>> => Failed(ErrURLRequired)
       /\ (request.URL # <<>> /\ request.Operation = "") => Failed(ErrOperationRequired)

\* C6 witness: a call with an empty url was rejected.
C6_Witness ==
  Failed(ErrURLRequired) /\ request.URL = <<>> /\ request.Operation = "canonical"

\* C7: a non-empty url that url.Parse rejects, sent with a recognized
\* operation, fails with "invalid URL format" and returns no response.
C7_MalformedURLRejected ==
  (Finished /\ request.URL # <<>> /\ request.Operation \in Recognized
     /\ (Parse(request.URL).err \/ HasPrefix(request.URL, <<chColon, chSlash, chSlash>>)))
    => Failed(ErrInvalidURL)

\* C7 witness: a url starting with "://" was rejected as malformed.
C7_Witness ==
  /\ Failed(ErrInvalidURL)
  /\ HasPrefix(request.URL, <<chColon, chSlash, chSlash>>)
  /\ request.Operation = "canonical"

\* C8: every call returns exactly one of a response and an error.
C8_ExactlyOneOfResponseAndError ==
  Finished => (pc = "done" /\ (response.isNil <=> err # NoError))

\* C9: in "all", a failure to re-parse the canonical string is returned to the
\* caller as an error with no response; the call does not go on or panic.
C9_ReparseFailureReported ==
  (/\ Finished
   /\ request.Operation = "all"
   /\ request.URL # <<>>
   /\ ReparseFails(Parse(request.URL)))
    => (pc = "done" /\ response.isNil /\ err # NoError)

\* C10: the path of a "canonical" result does not end in '/' unless it is "/",
\* and it is "/" when the path of the input is empty or only slashes.
C10_TrailingSlashesTrimmed ==
  (Returned /\ request.Operation = "canonical")
    => /\ TrimmedOrRoot(PathOf(response.ProcessedURL))
       /\ OnlySlashes(PathOf(request.URL)) => PathOf(response.ProcessedURL) = <<chSlash>>

\* The scheme of a url as the caller wrote it, before url.Parse lower-cases it.
WrittenScheme(s) == getScheme(CutBefore(s, chHash)).scheme

\* C11: "canonical" leaves the scheme (as written), the host with its port and
\* letter case, and the fragment as they are in the input; the path of the
\* result is the path of the input without its trailing slashes ("/" when
\* nothing is left), in the same letter case.
C11_CanonicalPreservesTheRest ==
  (Returned /\ request.Operation = "canonical")
    => /\ WrittenScheme(response.ProcessedURL) = WrittenScheme(request.URL)
       /\ HostOf(response.ProcessedURL) = HostOf(request.URL)
       /\ Parse(response.ProcessedURL).url.Fragment = Parse(request.URL).url.Fragment
       /\ PathOf(response.ProcessedURL) = trimmedPath(TrimRight(PathOf(request.URL), chSlash))

\* The authority of a url as written: what stands between the "//" after the
\* scheme and the next '/', '?' or '#'.
AfterScheme(s) == getScheme(CutBefore(CutBefore(s, chHash), chQuestion)).path
AuthorityOf(s) ==
  IF HasPrefix(AfterScheme(s), <<chSlash, chSlash>>)
  THEN CutBefore(Drop(AfterScheme(s), 2), chSlash)
  ELSE <<>>

\* The host[:port] of an authority (what follows the last '@') and its port
\* (the digits after the last ':', when that is a valid port).
HostPortOf(authority) == Drop(authority, LastIndexByte(authority, chAt))
PortOf(hostport) ==
  IF /\ LastIndexByte(hostport, chColon) # 0
     /\ validOptionalPort(Drop(hostport, LastIndexByte(hostport, chColon) - 1))
  THEN Drop(hostport, LastIndexByte(hostport, chColon))
  ELSE <<>>

\* The url of the request names a port.
HasExplicitPort(s) == PortOf(HostPortOf(AuthorityOf(s))) # <<>>

\* C12 as stated: for an input with an explicit port, the authority of the
\* result of "redirection" and of "all" is exactly www.byfood.com.
C12_AuthorityIsRedirectHost ==
  (Returned /\ request.Operation \in {"redirection", "all"} /\ HasExplicitPort(request.URL))
    => AuthorityOf(response.ProcessedURL) = RedirectHost

\* C12 as amended: for an input with an explicit port, the host[:port] of the
\* result of "redirection" and of "all" is exactly www.byfood.com, with no
\* port; a userinfo is kept in front of it.
C12_PortDropped ==
  (Returned /\ request.Operation \in {"redirection", "all"} /\ HasExplicitPort(request.URL))
    => HostPortOf(AuthorityOf(response.ProcessedURL)) = RedirectHost

\* C12 witness: a url with a userinfo and a port was redirected.
C12_Witness ==
  /\ Returned
  /\ request.Operation = "redirection"
  /\ request.URL = Str(<<"/", "/", "u", "@", "A", ":", "8", "/">>)
  /\ response.ProcessedURL = Str(<<"/", "/", "u", "@">>) \o RedirectHost \o <<chSlash>>

\* The path and the fragment of a url in their escaped form, and its query.
EscapedPathOf(s)     == EscapedPath(Parse(s).url)
EscapedFragmentOf(s) == EscapedFragment(Parse(s).url)
QueryOf(s)           == Parse(s).url.RawQuery

\* The query and the fragment of the result of "redirection" are those of the
\* input, lower-cased.
QueryAndFragmentKept ==
  /\ QueryOf(response.ProcessedURL) = ToLower(QueryOf(request.URL))
  /\ Contains(CutBefore(response.ProcessedURL, chHash), chQuestion)
       = Contains(CutBefore(request.URL, chHash), chQuestion)
  /\ EscapedFragmentOf(response.ProcessedURL) = ToLower(EscapedFragmentOf(request.URL))

\* p with a '/' in front when it is not empty and does not start with one.
Rooted(p) == IF p # <<>> /\ p[1] # chSlash THEN <<chSlash>> \o p ELSE p

\* C13 as stated: the path, the query and the fragment of the result of
\* "redirection" equal the lower-cased path, query and fragment of the input.
C13_RedirectionKeepsPathQueryFragment ==
  (Returned /\ request.Operation = "redirection")
    => /\ EscapedPathOf(response.ProcessedURL) = ToLower(EscapedPathOf(request.URL))
       /\ QueryAndFragmentKept

\* C13 as amended: the same, except that a path which does not start with '/'
\* gets one in front (trailing slashes, query and fragment are kept).
C13_RedirectionKeepsRootedPath ==
  (Returned /\ request.Operation = "redirection")
    => /\ EscapedPathOf(response.ProcessedURL) = Rooted(ToLower(EscapedPathOf(request.URL)))
       /\ QueryAndFragmentKept

\* C13 witness: a url with an upper-case path, a trailing slash and a query
\* was redirected and kept all three.
C13_Witness ==
  /\ Returned
  /\ request.Operation = "redirection"
  /\ request.URL = Str(<<"/", "A", "/", "?">>)
  /\ response.ProcessedURL = <<chSlash, chSlash>> \o RedirectHost \o Str(<<"/", "a", "/", "?">>)

\* What "all" yields for the url of the caller's first request.
AllOfOrigin == ProcessURLResult([URL |-> origin.URL, Operation |-> "all"])

\* C14: when the result of "canonical" on u has been processed with
\* "redirection", the outcome is the outcome of "all" on u.
C14_AllIsCanonicalThenRedirection ==
  (/\ Finished
   /\ round = 2
   /\ origin.Operation = "canonical"
   /\ request.Operation = "redirection")
    => /\ (pc = "panic") = AllOfOrigin.panic
       /\ response = AllOfOrigin.response
       /\ err = AllOfOrigin.err

\* Operations that differ from a recognized one only in letter case or in
\* surrounding characters.
NearMisses == {"Canonical", "ALL", "all "}

\* C15: an operation that differs from a recognized one only in letter case
\* or surrounding characters is rejected: the call returns an error and no
\* URL.
C15_ExactOperationMatch ==
  (Finished /\ request.Operation \in NearMisses)
    => (pc = "done" /\ response.isNil /\ err # NoError)

\* C15 witness: "all " with a parseable url was rejected as an invalid
\* operation.
C15_Witness ==
  /\ Failed(ErrInvalidOperation)
  /\ request.Operation = "all "
  /\ request.URL = Str(<<"/", "a">>)

\* What the test table expects for ExampleURL.
ExpectedFor(operation) ==
  IF operation = "canonical" THEN Lit("https://BYFOOD.com/food-EXPeriences")
  ELSE IF operation = "redirection"
    THEN Lit("https://www.byfood.com/food-experiences?query=abc/")
  ELSE Lit("https://www.byfood.com/food-experiences")

\* C18: for ExampleURL the three operations return the strings of the test
\* table.
C18_ExampleResults ==
  (Finished /\ request.URL = ExampleURL /\ request.Operation \in Recognized)
    => (Returned /\ response.ProcessedURL = ExpectedFor(request.Operation))

\* C18 witness: "all" on ExampleURL returned the expected string.
C18_Witness ==
  /\ Returned
  /\ request.URL = ExampleURL
  /\ request.Operation = "all"
  /\ response.ProcessedURL = Lit("https://www.byfood.com/food-experiences")

\* The handler has answered; the body was bound and the use case succeeded.
Answered == http.reply # NoAnswer
UseCaseSucceeded == http.body.valid /\ Returned
UseCaseFailed == http.body.valid /\ pc = "done" /\ err # NoError

\* C16: the handler answers 200 with the processed URL exactly when the use
\* case succeeds, and a 4xx status with an error whenever the body does not
\* bind or the use case returns an error; never 200 with an error or 4xx with
\* a processed URL.
C16_HandlerStatus ==
  Answered
    => /\ (http.reply.status = StatusOK) = UseCaseSucceeded
       /\ UseCaseSucceeded
            => /\ http.reply.kind = "processed_url"
               /\ http.reply.processed_url = response.ProcessedURL
       /\ (~http.body.valid \/ UseCaseFailed)
            => /\ http.reply.status \in 400..499
               /\ http.reply.kind = "error"
       /\ UseCaseFailed => http.reply.error = err
       /\ ~(http.reply.status = StatusOK /\ http.reply.kind = "error")
       /\ ~(http.reply.status \in 400..499 /\ http.reply.kind = "processed_url")

\* C16 witness: a body with an empty operation was answered with 400 and the
\* error of the use case.
C16_Witness ==
  /\ Answered
  /\ http.body = JSONBody(Str(<<"/", "a">>), "")
  /\ http.reply = JSONError(StatusBadRequest, ErrOperationRequired)

\* The call has ended, and ended as it would have if it had run alone.
Ended(call) == call.pc \in {"done", "panic"}
AsAlone(call) == call.result = ProcessURLResult(call.req)

\* C17: in every interleaving of the concurrent calls, a call that has ended
\* has the outcome the same request has when it is processed alone.
C17_CallsDoNotInterfere ==
  \A c \in DOMAIN calls : Ended(calls[c]) => AsAlone(calls[c])

\* C17 witness: two calls with different requests have both ended, one with a
\* processed URL and one with an error.
C17_Witness ==
  /\ DOMAIN calls # {}
  /\ \A c \in DOMAIN calls : Ended(calls[c])
  /\ \E c, d \in DOMAIN calls :
       /\ calls[c].req = [URL |-> Lit("/A/?a"), Operation |-> "all"]
       /\ calls[c].result = Succeed(<<chSlash, chSlash>> \o RedirectHost \o Lit("/a"))
       /\ calls[d].req = [URL |-> Lit("://"), Operation |-> "canonical"]
       /\ calls[d].result = Fail(ErrInvalidURL)


(***************************************************************************)
(* Concurrent calls of BookUseCase.CreateBook on one database.  A call     *)
(* reads and writes the database in two statements, FindByISBN and Create, *)
(* and other calls may run between them.                                   *)
(***************************************************************************)
\* A call of CreateBook that has not started, and one that has returned e.
NewCreator(book) == [pc |-> "find", book |-> book, err |-> NoError]
endCreator(cr, e) == [cr EXCEPT !.pc = "done", !.err = e]

\* CreateBook up to the lookup of the ISBN: validateBook, FindByISBN and the
\* check of what it found.
findStep(db, cr) ==
  IF validateBook(cr.book) # NoError THEN endCreator(cr, validateBook(cr.book))
  ELSE IF ~FindByISBN(db, cr.book.ISBN).isNil
    THEN endCreator(cr, "book with this ISBN already exists")
  ELSE [cr EXCEPT !.pc = "create"]

InitCreators ==
  /\ creating \in [Callers -> {NewCreator(book) : book \in ConcBooks}]
  /\ IdleMigrator
  /\ urlRepo = 0
  /\ EmptyLibrary
  /\ IdleURL
  /\ http = IdleHTTP
  /\ calls = NoCalls

FindExisting(c) ==
  /\ creating[c].pc = "find"
  /\ creating' = [creating EXCEPT ![c] = findStep(books, creating[c])]
  /\ UNCHANGED <<urlVars, http, calls, bookVars, migVars, urlRepo>>

\* uc.bookRepo.Create: one INSERT, with the uuid BeforeCreate generates.
Insert(c) ==
  /\ creating[c].pc = "create"
  /\ books' = Create(books, creating[c].book, uuids + 1).db
  /\ uuids' = uuids + 1
  /\ creating' = [creating EXCEPT
                    ![c] = endCreator(@, Create(books, creating[c].book, uuids + 1).err)]
  /\ UNCHANGED <<deleted, last, urlVars, http, calls, migVars, urlRepo>>

NextCreators == \E c \in Callers : FindExisting(c) \/ Insert(c)

SpecCreators == InitCreators /\ [][NextCreators]_vars

(***************************************************************************)
(* Calls of Migrator.Migrate on one database, one after the other.         *)
(***************************************************************************)
InitMigrator ==
  /\ IdleRest
  /\ EmptyLibrary
  /\ IdleURL
  /\ http = IdleHTTP
  /\ calls = NoCalls

\* The call ends: the versions it recorded are in the table, the Ups it ran
\* are counted, and the call is noted.
Migrated(result) ==
  /\ applied' = applied \cup {result.recorded[i] : i \in 1..Len(result.recorded)}
  /\ upRuns' = [i \in 1..Len(getMigrations) |->
                 IF \E j \in 1..Len(result.ran) : result.ran[j] = getMigrations[i]
                 THEN upRuns[i] + 1 ELSE upRuns[i]]
  /\ mig' = [calls |-> mig.calls + 1,
             failures |-> IF result.err = "nil" THEN mig.failures ELSE mig.failures + 1,
             ran |-> result.ran, recorded |-> result.recorded,
             err |-> result.err, before |-> applied]

Migrate(n, outcome) ==
  /\ mig.calls < MaxMigrateCalls
  /\ n <= Len(pendingMigrations(applied))
  /\ outcome = "nil" => n = Len(pendingMigrations(applied))
  /\ outcome = "table" => n = 0
  /\ outcome \in {"up", "record"} => n < Len(pendingMigrations(applied))
  /\ Migrated(MigrateResult(applied, n, outcome))
  /\ UNCHANGED <<urlVars, http, calls, bookVars, creating, urlRepo>>

NextMigrator == \E n \in 0..Len(getMigrations), outcome \in MigrateOutcomes : Migrate(n, outcome)

SpecMigrator == InitMigrator /\ [][NextMigrator]_vars

(***************************************************************************)
(* Vocabulary of the properties of BookUseCase.                            *)
(***************************************************************************)
\* No two stored books have the same ISBN.
NoSharedISBN == \A i, j \in DOMAIN books : books[i].ISBN = books[j].ISBN => i = j

\* This step is a call of CreateBook with a book whose ISBN a stored book
\* holds.
CreatesHeldISBN ==
  /\ last'.op = "CreateBook"
  /\ \E i \in DOMAIN books : books[i].ISBN = last'.book.ISBN

\* C19, as stated: after any sequence of CreateBook and UpdateBook calls no
\* two stored books have the same ISBN, and CreateBook with an ISBN that a
\* stored book holds fails with "book with this ISBN already exists" and
\* stores nothing.  Violated: validateBook runs before the ISBN is looked up,
\* so a book with a held ISBN and, say, no title fails with "book title is
\* required".
C19_HeldISBNRejectedWithMessage ==
  /\ []NoSharedISBN
  /\ [][CreatesHeldISBN =>
         last'.err = "book with this ISBN already exists" /\ books' = books]_vars

\* C19, amended: no two stored books ever have the same ISBN, and CreateBook
\* with an ISBN that a stored book holds fails and stores nothing; the error
\* is "book with this ISBN already exists" when the book passes validateBook,
\* and the error of validateBook otherwise.
C19_HeldISBNRejected ==
  /\ []NoSharedISBN
  /\ [][CreatesHeldISBN =>
         /\ books' = books
         /\ last'.err = IF validateBook(last'.book) = NoError
                        THEN "book with this ISBN already exists"
                        ELSE validateBook(last'.book)]_vars

\* Witness for C19: two books are stored, and the last call was a CreateBook
\* that was refused because of its ISBN.
C19_Witness ==
  /\ Cardinality(DOMAIN books) = 2
  /\ last.op = "CreateBook"
  /\ last.err = "book with this ISBN already exists"


\* The title, author, year and ISBN of a book.
Contents(book) == <<book.Title, book.Author, book.Year, book.ISBN>>

\* The last call was DeleteBook(id) and succeeded; the last call was
\* RestoreBook(id) of a book that DeleteBook had deleted, and succeeded.
DeleteSucceeded == last.op = "DeleteBook" /\ last.err = NoError
RestoreSucceeded == last.op = "RestoreBook" /\ last.err = NoError /\ last.id \in DOMAIN deleted

\* C20, as stated: after DeleteBook(id) succeeds on a stored book, the book
\* is not returned by GetAllBooks or GetBook(id), but remains in the database
\* and is returned by GetDeletedBooks; a later RestoreBook(id) makes it
\* visible again through GetAllBooks with its title, author, year and ISBN
\* unchanged.  Violated: Book.DeletedAt is a *time.Time and not a
\* gorm.DeletedAt, so db.Delete removes the row; GetDeletedBooks does not
\* return the book, and RestoreBook updates no row and returns nil.
C20_SoftDelete ==
  /\ DeleteSucceeded =>
       /\ \A b \in GetAll(books) : b.ID # last.id
       /\ GetBook(books, last.id).isNil
       /\ last.id \in DOMAIN books
       /\ \E b \in GetDeletedBooks(books) : b.ID = last.id
  /\ RestoreSucceeded =>
       \E b \in GetAll(books) : b.ID = last.id /\ Contents(b) = Contents(deleted[last.id])


\* The years the clock can show before the upper limit of validateBook is
\* reached.  BookUseCase never reads the clock.
ClockYears == 1000..2099

\* The last call was CreateBook or UpdateBook.
Saving == last.op \in {"CreateBook", "UpdateBook"}

\* C21, as stated: CreateBook and UpdateBook reject a book whose year exceeds
\* the current year, whatever the current year is.  Violated: validateBook
\* compares the year with 1000 and 2100 only, so the year 2100 is stored.
C21_YearNotAfterCurrentYear ==
  \E now \in ClockYears : (Saving /\ last.book.Year > now) => last.err # NoError


\* C22: the input checks run before the url is parsed, in the order empty
\* url, empty operation, unrecognized operation.  An empty url fails with
\* "URL is required" whatever the operation is; a url that url.Parse rejects,
\* sent with an empty operation, fails with "operation is required", and sent
\* with an unrecognized one with "invalid operation type", never with
\* "invalid URL format".
C22_ShapeChecksBeforeParsing ==
  Finished
    => /\ request.URL = <<>> => Failed(ErrURLRequired)
       /\ (Parse(request.URL).err /\ request.Operation = "") => Failed(ErrOperationRequired)
       /\ (Parse(request.URL).err /\ request.Operation \notin Recognized \cup {""})
            => Failed(ErrInvalidOperation)

\* C22 witness: a url that cannot be parsed was rejected for its operation.
C22_Witness ==
  /\ Failed(ErrInvalidOperation)
  /\ Parse(request.URL).err
  /\ request.Operation = "bogus"


\* The string has no upper-case letter.
AllLower(s) == \A i \in 1..Len(s) : ~IsUpperAlpha(s[i])

\* The percent-encoded slash as the inputs write it, and in lower case.
UpperEscape == Lit("%2F")
LowerEscape == Lit("%2f")

\* C23: in "redirection" and "all" the whole serialized string is lower-cased
\* after the host substitution: no letter of the output is upper-case, the
\* hex digits of its percent-encoded octets included (%2F becomes %2f).
C23_WholeOutputLowerCased ==
  (Returned /\ request.Operation \in {"redirection", "all"})
    => /\ AllLower(response.ProcessedURL)
       /\ Index(response.ProcessedURL, UpperEscape) = 0

\* C23 witness: "redirection" returned a URL for an input with an upper-case
\* letter and a percent-encoded octet.
C23_Witness ==
  /\ Returned
  /\ request.Operation = "redirection"
  /\ round = 1
  /\ ~AllLower(TrimRight(request.URL, chSlash))
  /\ Index(request.URL, UpperEscape) > 1
  /\ Index(response.ProcessedURL, LowerEscape) # 0


\* This step is a call of CreateBook or UpdateBook with a book that
\* validateBook rejects.
SavesInvalidBook ==
  /\ last'.op \in {"CreateBook", "UpdateBook"}
  /\ validateBook(last'.book) # NoError

\* C24, as stated: when validateBook rejects the book, CreateBook and
\* UpdateBook return the validation error without calling any repository
\* method, and the stored books are unchanged.  Violated: UpdateBook checks
\* the id first, so with an empty id it returns "book ID is required".
C24_ValidationErrorReturned ==
  [][SavesInvalidBook =>
       /\ last'.err = validateBook(last'.book)
       /\ last'.repo = <<>>
       /\ books' = books]_vars

\* C24, amended: when validateBook rejects the book, CreateBook, and
\* UpdateBook called with a non-empty id, return the validation error;
\* UpdateBook called with an empty id returns "book ID is required".  In both
\* cases no repository method is called and the stored books are unchanged.
C24_ValidationBeforeRepository ==
  [][SavesInvalidBook =>
       /\ last'.err = IF last'.op = "UpdateBook" /\ last'.id = NoID
                      THEN "book ID is required"
                      ELSE validateBook(last'.book)
       /\ last'.repo = <<>>
       /\ books' = books]_vars

\* C24 witness: UpdateBook was called for a stored book with a year out of
\* range and returned the validation error.
C24_Witness ==
  /\ last.op = "UpdateBook"
  /\ last.id \in DOMAIN books
  /\ last.book.Year = 2101
  /\ last.err = "book year must be between 1000 and 2100"
  /\ last.repo = <<>>


\* The repository methods that write for UpdateBook, DeleteBook and
\* HardDeleteBook, and whether a call named one of them.
Writers == {"Update", "Delete", "HardDelete"}
CalledWriter(repo) == \E i \in 1..Len(repo) : repo[i] \in Writers

\* This step is a call of UpdateBook, DeleteBook or HardDeleteBook with an
\* empty id; with an id that matches no stored book.
ChangesWithoutID ==
  last'.op \in {"UpdateBook", "DeleteBook", "HardDeleteBook"} /\ last'.id = NoID
ChangesUnknownID ==
  /\ last'.op \in {"UpdateBook", "DeleteBook", "HardDeleteBook"}
  /\ last'.id # NoID
  /\ last'.id \notin DOMAIN books

\* C25, as stated: UpdateBook, DeleteBook and HardDeleteBook called with an id
\* that matches no stored book return "book not found" and never call Update,
\* Delete or HardDelete of the repository; called with an empty id they
\* return "book ID is required" without any repository call; the stored books
\* are unchanged.  Violated: UpdateBook validates the book before it looks
\* the id up, so an invalid book gets the validation error.
C25_UnknownIDNotFound ==
  [][/\ ChangesWithoutID =>
          last'.err = "book ID is required" /\ last'.repo = <<>> /\ books' = books
     /\ ChangesUnknownID =>
          last'.err = "book not found" /\ ~CalledWriter(last'.repo) /\ books' = books]_vars

\* C25, amended: as stated, but UpdateBook returns "book not found" for an
\* unknown id only when the book passes validateBook, and the validation
\* error otherwise.
C25_UnknownIDRejected ==
  [][/\ ChangesWithoutID =>
          last'.err = "book ID is required" /\ last'.repo = <<>> /\ books' = books
     /\ ChangesUnknownID =>
          /\ last'.err = IF last'.op = "UpdateBook" /\ validateBook(last'.book) # NoError
                         THEN validateBook(last'.book)
                         ELSE "book not found"
          /\ ~CalledWriter(last'.repo)
          /\ books' = books]_vars

\* C25 witness: DeleteBook was called, while a book is stored, with the id of
\* no stored book, and looked the id up.
C25_Witness ==
  /\ last.op = "DeleteBook"
  /\ last.err = "book not found"
  /\ last.repo = <<"GetByID">>
  /\ books # <<>>
  /\ last.id \notin DOMAIN books


(***************************************************************************)
(* Vocabulary of the properties of Migrator.                               *)
(***************************************************************************)
\* All the versions getMigrations declares.
AllVersions == {getMigrations[i] : i \in 1..Len(getMigrations)}

\* The last call of Migrate ran Ups of pending migrations only, in declared
\* order without skipping one, and recorded those whose Up succeeded.
RanPendingInOrder ==
  /\ \A j \in 1..Len(mig.ran) : mig.ran[j] \notin mig.before
  /\ \A j \in 1..Len(mig.ran) : \A k \in 1..Len(getMigrations) :
        getMigrations[k] = mig.ran[j] =>
          \A h \in 1..(k - 1) :
            getMigrations[h] \in mig.before \/ \E g \in 1..(j - 1) : mig.ran[g] = getMigrations[h]
  /\ applied = mig.before \cup {mig.recorded[j] : j \in 1..Len(mig.recorded)}
  /\ \A j \in 1..Len(mig.recorded) : mig.recorded[j] = mig.ran[j]
  /\ mig.err = "nil" => Len(mig.recorded) = Len(mig.ran)

\* A call of Migrate made when every version is recorded runs no Up and adds
\* no record.
NothingToDoWhenAllRecorded ==
  (mig.calls > 0 /\ mig.before = AllVersions) => (mig.ran = <<>> /\ applied = mig.before)

\* C26, as stated: Migrate runs only pending migrations, in declared order,
\* and records each after its Up succeeds; across any sequence of Migrate
\* calls each migration's Up runs at most once; a call made when all versions
\* are recorded runs no Up and adds no record.  Violated: when an Up, or the
\* Create of the record after it, fails, Migrate returns the error with the
\* version unrecorded, and the next call runs that Up again.
C26_UpRunsAtMostOnce ==
  /\ RanPendingInOrder
  /\ NothingToDoWhenAllRecorded
  /\ \A i \in 1..Len(getMigrations) : upRuns[i] <= 1

\* C26, amended: as stated, but each migration's Up runs at most once only
\* across calls of Migrate that return nil; every call that fails lets one Up
\* run once more.  The Up of a recorded migration never runs again.
C26_RecordedNeverRerun ==
  /\ RanPendingInOrder
  /\ NothingToDoWhenAllRecorded
  /\ \A i \in 1..Len(getMigrations) : upRuns[i] <= 1 + mig.failures

\* C26 witness: Migrate recorded all three versions in one call, and was
\* called again.
C26_Witness ==
  /\ mig.calls = 2
  /\ mig.failures = 0
  /\ mig.before = AllVersions
  /\ mig.ran = <<>>
  /\ \A i \in 1..Len(getMigrations) : upRuns[i] = 1


(***************************************************************************)
(* Vocabulary of the properties of concurrent CreateBook calls.            *)
(***************************************************************************)
\* Callers c and d carry the same valid ISBN, and both calls have returned.
SameISBNDone(c, d) ==
  /\ c # d
  /\ creating[c].book.ISBN = creating[d].book.ISBN
  /\ validateBook(creating[c].book) = NoError
  /\ validateBook(creating[d].book) = NoError
  /\ creating[c].pc = "done"
  /\ creating[d].pc = "done"

\* C27: for any interleaving of two concurrent CreateBook calls that carry
\* the same valid ISBN, at most one ends with a book stored, and the store
\* never holds two books with that ISBN.
C27_OneOfTwoCreatesStores ==
  /\ NoSharedISBN
  /\ \A c, d \in DOMAIN creating :
       SameISBNDone(c, d) => (creating[c].err # NoError \/ creating[d].err # NoError)

\* C27 witness: both calls looked the ISBN up before either inserted; one
\* stored its book and the insert of the other was refused by the database.
C27_Witness ==
  \E c, d \in DOMAIN creating :
    /\ SameISBNDone(c, d)
    /\ creating[c].err = NoError
    /\ creating[d].err = "UNIQUE constraint failed: books.isbn"
    /\ Cardinality(DOMAIN books) = 1


(***************************************************************************)
(* Vocabulary of the properties that relate the operations of ProcessURL.  *)
(***************************************************************************)
\* What ProcessURL yields for "canonical" on the URL that ProcessURL returned
\* for "redirection" on u.
CanonicalOfRedirection(u) ==
  ProcessURLResult(
    [URL |-> ProcessURLResult([URL |-> u, Operation |-> "redirection"]).response.ProcessedURL,
     Operation |-> "canonical"])

LowerUser(user) == [user EXCEPT !.username = ToLower(@), !.password = ToLower(@)]

\* C29: "redirection" replaces only the host[:port] of the authority: the
\* userinfo of the input (user, or user and password) is the userinfo of the
\* output, in lower case, and stands in front of www.byfood.com; the scheme
\* of the output is the scheme of the input in lower case.
C29_RedirectionKeepsUserinfoAndScheme ==
  (Returned /\ request.Operation = "redirection" /\ round = 1)
    => /\ WrittenScheme(response.ProcessedURL) = ToLower(WrittenScheme(request.URL))
       /\ Parse(request.URL).url.User.set
            => /\ ~Parse(response.ProcessedURL).err
               /\ Parse(response.ProcessedURL).url.User = LowerUser(Parse(request.URL).url.User)
               /\ HostPortOf(AuthorityOf(response.ProcessedURL)) = RedirectHost

\* C29 witness: a url with a scheme, a user and a password was redirected.
C29_Witness ==
  /\ Returned
  /\ request.Operation = "redirection"
  /\ request.URL = Lit("A://U:P@B")
  /\ response.ProcessedURL = Lit("a://u:p@www.byfood.com")


\* C30: ProcessURL never calls the URLRepository it was given and never
\* modifies the URLRequest it receives: over every call, request.URL and
\* request.Operation are unchanged and no repository method is invoked.
C30_RequestAndRepositoryUntouched ==
  [][(pc = "call" /\ pc' # "call") => (request' = request /\ urlRepo' = urlRepo)]_vars

\* C30 witness: a call of "all" returned; the request is the one that was
\* sent and the repository has not been called.
C30_Witness ==
  /\ Returned
  /\ round = 1
  /\ request.Operation = "all"
  /\ request.URL = Lit("A/?a")
  /\ request = origin
  /\ urlRepo = 0

=============================================================================
